---- MODULE Spec2Model ----
(***************************************************************************)
(* A model of sortinfolder.py: the per-file pipeline process_image, its    *)
(* helpers get_date_taken, rotate_image_according_to_exif and              *)
(* add_relative_path_tag, and the thread pool of sort_images.              *)
(*                                                                         *)
(* Modelling choices                                                       *)
(*  - A string is a sequence of one-character strings; a path is a         *)
(*    sequence of components, each a string. basepath is <<"in">> and      *)
(*    output_path is <<"out">>: the output tree is outside the source tree.*)
(*  - Every library call of the source (os.path.getsize, os.makedirs,      *)
(*    shutil.copy2, Image.open/load, img.save, piexif.load, piexif.insert  *)
(*    ...) is one atomic step: it either takes effect whole or raises      *)
(*    without effect. Whether a call that touches the filesystem raises    *)
(*    for a reason outside the program (permissions, disk, a vanished      *)
(*    file) is a nondeterministic choice.                                  *)
(*  - A file is a record: pix (whose pixels), rot (degrees the pixels were *)
(*    rotated), data (fully decodable, truncated, or no image at all),     *)
(*    exif/orient/date/comment (the metadata block), size and ctime.       *)
(***************************************************************************)
EXTENDS Integers, Sequences, FiniteSets, TLC

VARIABLES
    fs,                 \* the filesystem: path -> file record
    dirs,               \* the directories that exist under output_path
    files_to_process,   \* sort_images: the list built by os.walk
    pc,                 \* per task: where its process_image call stands
    date_taken,         \* per task: process_image's local date_taken
    new_file_path,      \* per task: process_image's local new_file_path
    relative_path,      \* per task: process_image's local relative_path
    img,                \* per task: the image rotate_image_according_to_exif holds
    exif_dict,          \* per task: the exif_dict add_relative_path_tag holds
    exc,                \* per task: the exception that escaped process_image
    mainpc,             \* sort_images: where the calling thread stands
    yielded,            \* sort_images: the futures as_completed has handed out
    main_exc            \* sort_images: the exception it raises, if any

vars == <<fs, dirs, files_to_process, pc, date_taken, new_file_path,
          relative_path, img, exif_dict, exc, mainpc, yielded, main_exc>>

(***************************************************************************)
(* Bounds of the model.                                                    *)
(***************************************************************************)
NumFiles == 2
NumCalls == 2

(***************************************************************************)
(* Program constants.                                                      *)
(***************************************************************************)
max_workers == 30
SizeLimit == 100 * 1024

basepath == << <<"i", "n">> >>
output_path == << <<"o", "u", "t">> >>

NoDate == [y |-> 0, m |-> 0, d |-> 0, H |-> 0, M |-> 0, S |-> 0]
NoImg == [pix |-> 0, rot |-> 0, orient |-> 0]
NoExif == [exif |-> FALSE, orient |-> 0, date |-> <<>>, comment |-> <<>>,
           encodable |-> TRUE]
NoExc == "none"
Now == [y |-> 2026, m |-> 11, d |-> 3, H |-> 0, M |-> 0, S |-> 0]

(***************************************************************************)
(* Strings and paths.                                                      *)
(***************************************************************************)
LowerChar(c) ==
    CASE c = "J" -> "j"
      [] c = "P" -> "p"
      [] c = "G" -> "g"
      [] c = "X" -> "x"
      [] OTHER -> c

Lower(s) == [k \in 1..Len(s) |-> LowerChar(s[k])]

EndsWith(s, suffix) ==
    /\ Len(s) >= Len(suffix)
    /\ SubSeq(s, Len(s) - Len(suffix) + 1, Len(s)) = suffix

DotJpg == <<".", "j", "p", "g">>

Basename(p) == p[Len(p)]

Dirname(p) == SubSeq(p, 1, Len(p) - 1)

\* os.path.relpath(path, start) for a path under start; "." when they are equal
Relpath(p, start) ==
    IF Len(p) = Len(start) THEN << <<".">> >>
    ELSE SubSeq(p, Len(start) + 1, Len(p))

\* a path as the bytes of its string: components joined by "/"
RECURSIVE PathStr(_)
PathStr(p) ==
    IF Len(p) = 0 THEN <<>>
    ELSE IF Len(p) = 1 THEN p[1]
    ELSE p[1] \o <<"/">> \o PathStr(Tail(p))

\* every directory on the way from under root down to p, p included
Prefixes(p, root) == {SubSeq(p, 1, k) : k \in (Len(root) + 1)..Len(p)}

(***************************************************************************)
(* Dates: datetime.strptime and datetime.strftime.                         *)
(***************************************************************************)
DigitChar(n) == <<"0", "1", "2", "3", "4", "5", "6", "7", "8", "9">>[n + 1]

RECURSIVE Digits(_)
Digits(n) ==
    IF n < 10 THEN <<DigitChar(n)>>
    ELSE Digits(n \div 10) \o <<DigitChar(n % 10)>>

Pad2_Unpadded(n) == Digits(n)

Pad2(n) == IF n < 10 THEN <<"0">> \o Digits(n) ELSE Digits(n)

\* date.strftime("%Y/%m/%d"), as the three path components it names
StrftimeYmd(date) == <<Digits(date.y), Pad2(date.m), Pad2(date.d)>>

IsLeap(y) == (y % 4 = 0 /\ y % 100 # 0) \/ y % 400 = 0

DaysIn(y, m) ==
    IF m = 2 THEN (IF IsLeap(y) THEN 29 ELSE 28)
    ELSE IF m \in {4, 6, 9, 11} THEN 30
    ELSE 31

\* does datetime.strptime(date_str, '%Y:%m:%d %H:%M:%S') accept the field's value
StrptimeOk(v) ==
    /\ Len(v) = 6
    /\ v[1] \in 1..9999
    /\ v[2] \in 1..12
    /\ v[3] \in 1..DaysIn(v[1], v[2])
    /\ v[4] \in 0..23
    /\ v[5] \in 0..59
    /\ v[6] \in 0..61

Strptime(v) == [y |-> v[1], m |-> v[2], d |-> v[3], H |-> v[4], M |-> v[5], S |-> v[6]]

(***************************************************************************)
(* process_image, line 157: the filter.                                    *)
(***************************************************************************)
IsJpgName(path) == EndsWith(Lower(PathStr(path)), DotJpg)

BigEnough_AtLeast(size) == size >= SizeLimit

BigEnough(size) == size > SizeLimit

(***************************************************************************)
(* get_date_taken.                                                         *)
(***************************************************************************)
\* lines 101-108: does the try block return (no exception of any kind)
ExifDateUsable(f, readOk) ==
    /\ readOk
    /\ f.data # "notimage"
    /\ f.exif
    /\ f.date # <<>>
    /\ StrptimeOk(f.date)

(***************************************************************************)
(* rotate_image_according_to_exif.                                         *)
(***************************************************************************)
\* the angle of lines 68-76, counter-clockwise as PIL's rotate turns
RotationAngle(orientation) ==
    CASE orientation = 3 -> 180
      [] orientation = 6 -> 270
      [] orientation = 8 -> 90
      [] OTHER -> 0

NeedsSave_Without8(orientation) == orientation \in {3, 6}

NeedsSave(orientation) == orientation \in {3, 6, 8}

\* img.save(image_path): the turned pixels, written without a metadata block
SavedFile(old, image) ==
    [old EXCEPT !.pix = image.pix,
                !.rot = (image.rot + RotationAngle(image.orient)) % 360,
                !.data = "ok",
                !.exif = FALSE, !.orient = 0, !.date = <<>>, !.comment = <<>>,
                !.encodable = TRUE, !.ctime = Now]

(***************************************************************************)
(* add_relative_path_tag.                                                  *)
(***************************************************************************)
RelativePathTag == <<"\n", "RelativePath:">>

NewComment_Overwrite(user_comment, rel) == RelativePathTag \o PathStr(rel)

\* line 130
NewComment(user_comment, rel) == user_comment \o RelativePathTag \o PathStr(rel)

\* piexif.load: the metadata block of the file
LoadExif(f) ==
    [exif |-> f.exif, orient |-> f.orient, date |-> f.date, comment |-> f.comment,
     encodable |-> f.encodable]

\* piexif.insert: the file with its metadata block replaced
InsertedFile(old, ed) ==
    [old EXCEPT !.exif = TRUE, !.orient = ed.orient, !.date = ed.date,
                !.comment = ed.comment, !.ctime = Now]

(***************************************************************************)
(* Tasks: one call of process_image per submitted file. A step that only   *)
(* computes locals is taken together with the library call that follows it.*)
(***************************************************************************)
Tasks == DOMAIN pc

file_path(i) == files_to_process[i]

Terminal(i) == pc[i] \in {"finished", "failed"}

Running(i) == pc[i] \notin {"queued", "finished", "failed"}

\* an exception leaves process_image: nothing in it catches
Raise(i, what) ==
    /\ pc' = [pc EXCEPT ![i] = "failed"]
    /\ exc' = [exc EXCEPT ![i] = what]

\* a worker thread takes the oldest queued work item and runs line 157
Filter(i) ==
    /\ pc[i] = "queued"
    /\ \A j \in Tasks : j < i => pc[j] # "queued"
    /\ Cardinality({j \in Tasks : Running(j)}) < max_workers
    /\ IF ~IsJpgName(file_path(i))
       THEN pc' = [pc EXCEPT ![i] = "finished"] /\ UNCHANGED exc
       ELSE \E statOk \in BOOLEAN :
              IF ~statOk THEN Raise(i, "getsize")
              ELSE /\ pc' = [pc EXCEPT ![i] =
                               IF BigEnough(fs[file_path(i)].size)
                               THEN "date" ELSE "finished"]
                   /\ UNCHANGED exc
    /\ UNCHANGED <<fs, dirs, files_to_process, date_taken, new_file_path,
                   relative_path, img, exif_dict, mainpc, yielded, main_exc>>

\* get_date_taken(path): the date it returns, NoDate when it raises instead
DateTaken(f, readOk, statOk) ==
    IF ExifDateUsable(f, readOk) THEN Strptime(f.date)
    ELSE IF statOk THEN f.ctime
    ELSE NoDate

NewFolderOf(date) == output_path \o StrftimeYmd(date)

NewFolder(i) == NewFolderOf(date_taken[i])

\* lines 159-161: the date, the folder, the test whether the folder exists
GetDateTaken(i) ==
    /\ pc[i] = "date"
    /\ \E readOk \in BOOLEAN, statOk \in BOOLEAN :
         LET date == DateTaken(fs[file_path(i)], readOk, statOk) IN
         IF date = NoDate
         THEN Raise(i, "getctime") /\ UNCHANGED date_taken
         ELSE /\ date_taken' = [date_taken EXCEPT ![i] = date]
              /\ pc' = [pc EXCEPT ![i] =
                          IF NewFolderOf(date) \in dirs THEN "copy" ELSE "makedirs"]
              /\ UNCHANGED exc
    /\ UNCHANGED <<fs, dirs, files_to_process, new_file_path,
                   relative_path, img, exif_dict, mainpc, yielded, main_exc>>

\* does os.makedirs(new_folder) raise FileExistsError
MakedirsRaises(folder) == folder \in dirs

\* line 162
Makedirs(i) ==
    /\ pc[i] = "makedirs"
    /\ IF MakedirsRaises(NewFolder(i))
       THEN Raise(i, "FileExistsError") /\ UNCHANGED dirs
       ELSE \E ok \in BOOLEAN :
              IF ok
              THEN /\ dirs' = dirs \cup Prefixes(NewFolder(i), output_path)
                   /\ pc' = [pc EXCEPT ![i] = "copy"]
                   /\ UNCHANGED exc
              ELSE Raise(i, "makedirs") /\ UNCHANGED dirs
    /\ UNCHANGED <<fs, files_to_process, date_taken, new_file_path,
                   relative_path, img, exif_dict, mainpc, yielded, main_exc>>

\* line 165
DestPath(folder, path) == folder \o <<Basename(path)>>

\* the file shutil.copy2 leaves at the destination
CopiedFile(f) == [f EXCEPT !.ctime = Now]

\* can the file at path be opened for writing: a new file, or one not read-only
Writable(path) == path \notin DOMAIN fs \/ fs[path].mode = "rw"

Write(path, f) == fs' = [p \in DOMAIN fs \cup {path} |-> IF p = path THEN f ELSE fs[p]]

\* lines 165-168
Copy(i) ==
    /\ pc[i] = "copy"
    /\ LET dest == DestPath(NewFolder(i), file_path(i)) IN
       /\ new_file_path' = [new_file_path EXCEPT ![i] = dest]
       /\ \E ok \in BOOLEAN :
            IF ok /\ Writable(dest)
            THEN /\ Write(dest, CopiedFile(fs[file_path(i)]))
                 /\ pc' = [pc EXCEPT ![i] = "rotate_open"]
                 /\ UNCHANGED exc
            ELSE Raise(i, "copy2") /\ UNCHANGED fs
    /\ UNCHANGED <<dirs, files_to_process, date_taken,
                   relative_path, img, exif_dict, mainpc, yielded, main_exc>>

RotateSource(i) == file_path(i)

\* the path rotate_image_according_to_exif is called with, line 172
RotateTarget(i) == new_file_path[i]

\* lines 59-67: the image opens, loads fully and yields an EXIF dictionary.
\* A truncated file returns at line 65; a file that is no image, and one
\* with no EXIF block (img._getexif() is None, a TypeError), end at line 83.
Decodes(f) == f.data = "ok" /\ f.exif

\* lines 59-80: open, load, read the orientation, turn the image in memory
RotateOpen(i) ==
    /\ pc[i] = "rotate_open"
    /\ LET f == fs[RotateTarget(i)] IN
       IF Decodes(f) /\ NeedsSave(f.orient)
       THEN /\ img' = [img EXCEPT ![i] =
                         [pix |-> f.pix, rot |-> f.rot, orient |-> f.orient]]
            /\ pc' = [pc EXCEPT ![i] = "rotate_save"]
       ELSE /\ pc' = [pc EXCEPT ![i] = "tag_load"]
            /\ UNCHANGED img
    /\ UNCHANGED <<fs, dirs, files_to_process, date_taken, new_file_path,
                   relative_path, exif_dict, exc, mainpc, yielded, main_exc>>

\* lines 80-83: img.save(image_path); its failure is caught and logged
RotateSave(i) ==
    /\ pc[i] = "rotate_save"
    /\ IF Writable(RotateTarget(i))
       THEN Write(RotateTarget(i), SavedFile(fs[RotateTarget(i)], img[i]))
       ELSE UNCHANGED fs
    /\ pc' = [pc EXCEPT ![i] = "tag_load"]
    /\ UNCHANGED <<dirs, files_to_process, date_taken, new_file_path,
                   relative_path, img, exif_dict, exc, mainpc, yielded, main_exc>>

\* the path add_relative_path_tag is called with, line 176
TagTarget(i) == new_file_path[i]

\* line 175
RelativePathOf(path) == Relpath(Dirname(path), basepath)

\* lines 175-176 and 127-131: the relative path, piexif.load, the new comment;
\* piexif.load raises on a file that is no image, which line 141 catches
TagLoad(i) ==
    /\ pc[i] = "tag_load"
    /\ relative_path' = [relative_path EXCEPT ![i] = RelativePathOf(file_path(i))]
    /\ LET f == fs[TagTarget(i)] IN
       IF ~IsJpgName(TagTarget(i)) \/ f.data = "notimage"
       THEN /\ pc' = [pc EXCEPT ![i] = "finished"]
            /\ UNCHANGED exif_dict
       ELSE /\ exif_dict' = [exif_dict EXCEPT ![i] =
                  [LoadExif(f) EXCEPT
                     !.comment = NewComment(f.comment, RelativePathOf(file_path(i)))]]
            /\ pc' = [pc EXCEPT ![i] = "tag_insert"]
    /\ UNCHANGED <<fs, dirs, files_to_process, date_taken, new_file_path,
                   img, exc, mainpc, yielded, main_exc>>

\* lines 133-138 and 141-142: piexif.dump and piexif.insert; the struct.error
\* of a block that does not encode and the error of a file that cannot be
\* written are caught and logged
TagInsert(i) ==
    /\ pc[i] = "tag_insert"
    /\ IF exif_dict[i].encodable /\ Writable(TagTarget(i))
       THEN Write(TagTarget(i), InsertedFile(fs[TagTarget(i)], exif_dict[i]))
       ELSE UNCHANGED fs
    /\ pc' = [pc EXCEPT ![i] = "finished"]
    /\ UNCHANGED <<dirs, files_to_process, date_taken, new_file_path,
                   relative_path, img, exif_dict, exc, mainpc, yielded, main_exc>>

ProcessImage(i) ==
    \/ Filter(i)
    \/ GetDateTaken(i)
    \/ Makedirs(i)
    \/ Copy(i)
    \/ RotateOpen(i)
    \/ RotateSave(i)
    \/ TagLoad(i)
    \/ TagInsert(i)

(***************************************************************************)
(* sort_images.                                                            *)
(***************************************************************************)
\* os.walk(basepath), lines 195-198: the files under basepath, in listing order
Walk ==
    LET found == {p \in DOMAIN fs : SubSeq(p, 1, Len(basepath)) = basepath}
        n == Cardinality(found)
    IN CHOOSE s \in [1..n -> found] : \A a, b \in 1..n : a # b => s[a] # s[b]

\* lines 190-202: the output directory, the file list, the submissions
SortImagesStart ==
    /\ mainpc = "start"
    /\ \E ok \in BOOLEAN :
         IF output_path \notin dirs /\ ~ok
         THEN /\ mainpc' = "raised"
              /\ main_exc' = "makedirs(output_path)"
              /\ UNCHANGED <<dirs, files_to_process, pc, date_taken, new_file_path,
                             relative_path, img, exif_dict, exc>>
         ELSE /\ dirs' = dirs \cup {output_path}
              /\ files_to_process' = Walk
              /\ pc' = [i \in 1..Len(Walk) |-> "queued"]
              /\ date_taken' = [i \in 1..Len(Walk) |-> NoDate]
              /\ new_file_path' = [i \in 1..Len(Walk) |-> <<>>]
              /\ relative_path' = [i \in 1..Len(Walk) |-> <<>>]
              /\ img' = [i \in 1..Len(Walk) |-> NoImg]
              /\ exif_dict' = [i \in 1..Len(Walk) |-> NoExif]
              /\ exc' = [i \in 1..Len(Walk) |-> NoExc]
              /\ mainpc' = "collect"
              /\ UNCHANGED main_exc
    /\ UNCHANGED <<fs, yielded>>

\* lines 203-204: as_completed hands out a finished future; result() re-raises
AsCompleted(i) ==
    /\ mainpc = "collect"
    /\ i \notin yielded
    /\ Terminal(i)
    /\ yielded' = yielded \cup {i}
    /\ IF pc[i] = "failed"
       THEN main_exc' = exc[i] /\ mainpc' = "exit"
       ELSE UNCHANGED <<main_exc, mainpc>>
    /\ UNCHANGED <<fs, dirs, files_to_process, pc, date_taken, new_file_path,
                   relative_path, img, exif_dict, exc>>

\* line 203: as_completed is exhausted
LoopEnd ==
    /\ mainpc = "collect"
    /\ yielded = Tasks
    /\ mainpc' = "exit"
    /\ UNCHANGED <<fs, dirs, files_to_process, pc, date_taken, new_file_path,
                   relative_path, img, exif_dict, exc, yielded, main_exc>>

ShutdownNoWait == TRUE

\* line 201: leaving the with block is executor.shutdown(wait=True)
ShutdownDone == \A i \in Tasks : Terminal(i)

ExecutorExit ==
    /\ mainpc = "exit"
    /\ ShutdownDone
    /\ mainpc' = IF main_exc = NoExc THEN "returned" ELSE "raised"
    /\ UNCHANGED <<fs, dirs, files_to_process, pc, date_taken, new_file_path,
                   relative_path, img, exif_dict, exc, yielded, main_exc>>

Next ==
    \/ SortImagesStart
    \/ \E i \in Tasks : ProcessImage(i)
    \/ \E i \in Tasks : AsCompleted(i)
    \/ LoopEnd
    \/ ExecutorExit

(***************************************************************************)
(* Initial states.                                                         *)
(***************************************************************************)
Str_x_jpg == <<"x", ".", "j", "p", "g">>

Date1 == <<2023, 5, 10, 12, 0, 0>>
Date2 == <<2023, 12, 9, 23, 59, 59>>
CDate == [y |-> 2024, m |-> 2, d |-> 29, H |-> 8, M |-> 30, S |-> 0]

SourceFile(id, data, exif, orient, date, comment, encodable, mode, size, ctime) ==
    [pix |-> id, rot |-> 0, data |-> data, exif |-> exif, orient |-> orient,
     date |-> date, comment |-> comment, encodable |-> encodable, mode |-> mode,
     size |-> size, ctime |-> ctime]

DirName(i) == <<"a", "b", "c", "d">>[i]

\* the metadata of the photos of a concurrent run
PhotoKinds ==
    { [exif |-> TRUE, orient |-> 1, date |-> Date1, mode |-> "rw"],
      [exif |-> TRUE, orient |-> 6, date |-> Date1, mode |-> "rw"],
      [exif |-> TRUE, orient |-> 8, date |-> Date1, mode |-> "ro"],
      [exif |-> TRUE, orient |-> 6, date |-> Date2, mode |-> "rw"],
      [exif |-> FALSE, orient |-> 0, date |-> <<>>, mode |-> "rw"] }

PhotoPath(i) == basepath \o << <<DirName(i)>>, Str_x_jpg >>

InitTasks ==
    /\ files_to_process = <<>>
    /\ pc = <<>>
    /\ date_taken = <<>>
    /\ new_file_path = <<>>
    /\ relative_path = <<>>
    /\ img = <<>>
    /\ exif_dict = <<>>
    /\ exc = <<>>
    /\ mainpc = "start"
    /\ yielded = {}
    /\ main_exc = NoExc

\* NumFiles qualifying photos of the same name, one per subdirectory: the
\* first of any kind, the others turned photos taken on the first date. The
\* output directory is absent, or is there with that date's folder in it.
Init ==
    /\ \E kind \in PhotoKinds :
         fs = [p \in {PhotoPath(i) : i \in 1..NumFiles} |->
                 LET i == CHOOSE j \in 1..NumFiles : PhotoPath(j) = p
                     k == IF i = 1 THEN kind
                          ELSE [exif |-> TRUE, orient |-> 6, date |-> Date1, mode |-> "rw"]
                 IN SourceFile(i, "ok", k.exif, k.orient, k.date,
                               IF k.exif THEN <<"c">> ELSE <<>>, TRUE, k.mode,
                               200000, CDate)]
    /\ dirs \in {{}, {output_path} \cup Prefixes(NewFolderOf(Strptime(Date1)), output_path)}
    /\ InitTasks

Spec == Init /\ [][Next]_vars

(***************************************************************************)
(* One file of any kind, processed alone.                                  *)
(***************************************************************************)
Str_x_JPG == <<"x", ".", "J", "P", "G">>
Str_x_jpeg == <<"x", ".", "j", "p", "e", "g">>
Str_xjpg == <<"x", "j", "p", "g">>
Str_jpg == <<"j", "p", "g">>
Str_x_png == <<"x", ".", "p", "n", "g">>

OneNames == {Str_x_jpg, Str_x_JPG, Str_x_jpeg, Str_xjpg, Str_jpg, DotJpg}

OneDirs == {<<>>, << <<"a">> >>, << <<"a">>, <<"b">> >>}

OneSizes == {0, 102399, 102400, 102401, 5000000}

LeapDay == <<2024, 2, 29, 0, 0, 0>>

\* values of the capture-date field that strptime refuses
BadDates ==
    { <<0, 0, 0, 0, 0, 0>>, <<2023, 13, 10, 12, 0, 0>>, <<2023, 2, 29, 12, 0, 0>>,
      <<2023, 5, 10>>, <<2023, 5, 10, 24, 0, 0>> }

Meta(data, exif, orient, date, comment, encodable) ==
    [data |-> data, exif |-> exif, orient |-> orient, date |-> date,
     comment |-> comment, encodable |-> encodable]

OneMetas ==
    {Meta(data, TRUE, orient, Date1, <<"c">>, TRUE) :
        data \in {"ok", "truncated"}, orient \in 0..8}
    \cup {Meta("ok", TRUE, 1, date, <<>>, TRUE) :
        date \in {<<>>, Date2, LeapDay} \cup BadDates}
    \cup {Meta("ok", TRUE, 3, Date1, <<"c">>, FALSE)}
    \cup {Meta(data, FALSE, 0, <<>>, <<>>, TRUE) :
        data \in {"ok", "truncated", "notimage"}}

InitOne ==
    /\ \E dir \in OneDirs, name \in OneNames, size \in OneSizes,
          meta \in OneMetas, mode \in {"rw", "ro"} :
         fs = [p \in {basepath \o dir \o <<name>>} |->
                 SourceFile(1, meta.data, meta.exif, meta.orient, meta.date,
                            meta.comment, meta.encodable, mode, size, CDate)]
    /\ dirs \in {{}, {output_path}}
    /\ InitTasks

SpecOne == InitOne /\ [][Next]_vars

(***************************************************************************)
(* add_relative_path_tag called NumCalls times in a row on one file, each  *)
(* call for a source in a directory of its own choice.                     *)
(***************************************************************************)
TagNames == {Str_x_jpg, Str_x_JPG, Str_x_png}

InitTag ==
    /\ \E name \in TagNames, meta \in OneMetas, mode \in {"rw", "ro"},
          dir \in [1..NumCalls -> OneDirs] :
         LET image_path == NewFolderOf(Strptime(Date1)) \o <<name>> IN
         /\ fs = [p \in {image_path} |->
                    SourceFile(1, meta.data, meta.exif, meta.orient, meta.date,
                               meta.comment, meta.encodable, mode, 200000, Now)]
         /\ files_to_process = [i \in 1..NumCalls |-> basepath \o dir[i] \o <<name>>]
         /\ new_file_path = [i \in 1..NumCalls |-> image_path]
    /\ dirs = {output_path} \cup Prefixes(NewFolderOf(Strptime(Date1)), output_path)
    /\ pc = [i \in 1..NumCalls |-> "tag_load"]
    /\ date_taken = [i \in 1..NumCalls |-> Strptime(Date1)]
    /\ relative_path = [i \in 1..NumCalls |-> <<>>]
    /\ img = [i \in 1..NumCalls |-> NoImg]
    /\ exif_dict = [i \in 1..NumCalls |-> NoExif]
    /\ exc = [i \in 1..NumCalls |-> NoExc]
    /\ mainpc = "calls"
    /\ yielded = {}
    /\ main_exc = NoExc

\* call i starts when call i - 1 has returned
NextCall(i) ==
    /\ \A j \in Tasks : j < i => pc[j] = "finished"
    /\ (TagLoad(i) \/ TagInsert(i))

NextTag == \E i \in Tasks : NextCall(i)

SpecTag == InitTag /\ [][NextTag]_vars

(***************************************************************************)
(* The claims.                                                             *)
(***************************************************************************)
UnderBase(p) == Len(p) > Len(basepath) /\ SubSeq(p, 1, Len(basepath)) = basepath


RunOver == mainpc \in {"returned", "raised"}

\* the decimal number a string of digits writes, -1 when it is no such string
DigitValue(c) ==
    CASE c = "0" -> 0 [] c = "1" -> 1 [] c = "2" -> 2 [] c = "3" -> 3
      [] c = "4" -> 4 [] c = "5" -> 5 [] c = "6" -> 6 [] c = "7" -> 7
      [] c = "8" -> 8 [] c = "9" -> 9 [] OTHER -> -1

RECURSIVE Decimal(_)
Decimal(str) ==
    IF Len(str) = 0 THEN -1
    ELSE IF DigitValue(str[Len(str)]) < 0 THEN -1
    ELSE IF Len(str) = 1 THEN DigitValue(str[1])
    ELSE LET high == Decimal(SubSeq(str, 1, Len(str) - 1)) IN
         IF high < 0 THEN -1 ELSE 10 * high + DigitValue(str[Len(str)])

\* C1: whichever steps of process_image fail, every exception is caught inside
\* that file's pipeline: no task ends with an exception, and sort_images
\* never raises on account of a file.
C1_NoExceptionLeavesProcessImage ==
    /\ \A i \in Tasks : pc[i] # "failed" /\ exc[i] = NoExc
    /\ mainpc = "raised" => main_exc = "makedirs(output_path)"

\* C2: workers creating the folder of one date at the same time never raise
\* ("already exists" is success), and the folder exists afterwards.
C2_ConcurrentMakedirsNeverRaises ==
    \A i \in Tasks :
        /\ exc[i] # "FileExistsError"
        /\ pc[i] \in {"copy", "rotate_open", "rotate_save", "tag_load", "tag_insert"}
              => NewFolder(i) \in dirs

\* C3: a file whose name does not end in .jpg (whatever the case) or whose
\* size is at most 102400 bytes leaves the output tree as it was: no
\* directory and no copy is made for it.
C3_NonQualifyingFileLeavesOutputUnchanged ==
    \A i \in Tasks :
        LET p == file_path(i)
            name == Basename(p)
            jpg == /\ Len(name) >= 4
                   /\ name[Len(name) - 3] = "."
                   /\ name[Len(name) - 2] \in {"j", "J"}
                   /\ name[Len(name) - 1] \in {"p", "P"}
                   /\ name[Len(name)] \in {"g", "G"}
        IN (~jpg \/ fs[p].size <= 102400)
              => /\ pc[i] \in {"queued", "finished", "failed"}
                 /\ new_file_path[i] = <<>>
                 /\ DOMAIN fs = {p}
                 /\ dirs \subseteq {output_path}

C3_Witness ==
    /\ RunOver
    /\ \E i \in Tasks :
         /\ pc[i] = "finished"
         /\ Basename(file_path(i)) = Str_x_jpg
         /\ fs[file_path(i)].size = 102400
         /\ DOMAIN fs = {file_path(i)}

\* C4: the copy of a file is written to output_path/YYYY/MM/DD/<basename>,
\* YYYY the year and MM, DD the two-digit, zero-padded month and day of the
\* date get_date_taken returned; nothing else enters the path.
C4_DestinationIsDateFolderAndBasename ==
    \A i \in Tasks :
        pc[i] \in {"rotate_open", "rotate_save", "tag_load", "tag_insert", "finished"}
           /\ new_file_path[i] # <<>>
        => LET p == new_file_path[i]
               n == Len(output_path)
           IN /\ Len(p) = n + 4
              /\ SubSeq(p, 1, n) = output_path
              /\ Decimal(p[n + 1]) = date_taken[i].y
              /\ Len(p[n + 2]) = 2 /\ Decimal(p[n + 2]) = date_taken[i].m
              /\ Len(p[n + 3]) = 2 /\ Decimal(p[n + 3]) = date_taken[i].d
              /\ p[n + 4] = file_path(i)[Len(file_path(i))]
              /\ p \in DOMAIN fs
              /\ SubSeq(p, 1, n + 3) \in dirs

C4_Witness ==
    \E i \in Tasks :
        /\ pc[i] = "finished"
        /\ Len(file_path(i)) = 4
        /\ new_file_path[i] = output_path \o
              << <<"2", "0", "2", "3">>, <<"1", "2">>, <<"0", "9">>, Str_x_JPG >>

\* C5: when sort_images returns or raises, every submitted task has finished
\* or failed; a task that failed makes sort_images raise that task's
\* exception, and no task is left unrun because another one failed.
C5_AllTasksTerminalBeforeSortImagesEnds ==
    RunOver =>
        /\ \A i \in Tasks : Terminal(i)
        /\ mainpc = "returned" => \A i \in Tasks : pc[i] = "finished"
        /\ (\E i \in Tasks : pc[i] = "failed")
              => /\ mainpc = "raised"
                 /\ \E i \in Tasks : pc[i] = "failed" /\ main_exc = exc[i]

C5_Witness ==
    /\ mainpc = "raised"
    /\ \E i, j \in Tasks :
         /\ pc[i] = "failed" /\ main_exc = exc[i]
         /\ pc[j] = "finished" /\ j \notin yielded
         /\ new_file_path[j] \in DOMAIN fs

C8_DateResolutionNeverRaises ==
    \A i \in Tasks :
        /\ exc[i] # "getctime"
        /\ pc[i] \in {"makedirs", "copy", "rotate_open", "rotate_save",
                      "tag_load", "tag_insert"} =>
              LET f == fs[file_path(i)] IN
              \/ date_taken[i] = f.ctime
              \/ /\ f.exif /\ f.date # <<>> /\ StrptimeOk(f.date)
                 /\ date_taken[i] = Strptime(f.date)

\* the bytes add_relative_path_tag appends for a relative path
TagBytes(rel) == <<"\n", "RelativePath:">> \o PathStr(rel)

RECURSIVE AllTags(_)
AllTags(n) == IF n = 0 THEN <<>> ELSE AllTags(n - 1) \o TagBytes(relative_path[n])

\* C9: each call of add_relative_path_tag whose write succeeds appends
\* "\nRelativePath:<its path>" to the comment the file has at that moment,
\* so after calls with p1, then p2, the comment is the original one followed
\* by the tag of p1 and the tag of p2; a call whose encode or write fails
\* leaves the comment as it was; no call touches the pixels, their rotation
\* or anything the copy and the rotation did.
C9_TagStep ==
    \A p \in DOMAIN fs :
        /\ p \in DOMAIN fs'
        /\ [fs'[p] EXCEPT !.comment = <<>>, !.exif = TRUE] =
              [fs[p] EXCEPT !.comment = <<>>, !.exif = TRUE]
        /\ \A i \in Tasks :
              pc[i] = "tag_insert" /\ pc'[i] = "finished" =>
                 IF fs[p].encodable /\ fs[p].mode = "rw"
                 THEN /\ fs'[p].comment = fs[p].comment \o TagBytes(relative_path[i])
                      /\ fs'[p].exif
                 ELSE fs'[p] = fs[p]
        /\ (\A i \in Tasks : ~(pc[i] = "tag_insert" /\ pc'[i] = "finished"))
              => fs'[p] = fs[p]

C9_AllCallsDone ==
    (\A i \in Tasks : pc[i] = "finished") =>
        \A p \in DOMAIN fs :
            LET f == fs[p] IN
            (IsJpgName(p) /\ f.data # "notimage" /\ f.encodable /\ f.mode = "rw")
               => \E original \in {<<>>, <<"c">>} :
                     f.comment = original \o AllTags(NumCalls)

PipelineResult(src, rel) ==
    LET copied == [src EXCEPT !.ctime = Now]
        turned == IF copied.data = "ok" /\ copied.orient \in {3, 6, 8} /\ copied.mode = "rw"
                  THEN [copied EXCEPT
                          !.rot = (CASE copied.orient = 3 -> 180
                                     [] copied.orient = 6 -> 270
                                     [] copied.orient = 8 -> 90),
                          !.exif = FALSE, !.orient = 0, !.date = <<>>,
                          !.comment = <<>>, !.encodable = TRUE]
                  ELSE copied
    IN IF turned.data # "notimage" /\ turned.encodable /\ turned.mode = "rw"
       THEN [turned EXCEPT !.exif = TRUE, !.comment = @ \o TagBytes(rel)]
       ELSE turned

\* the tasks that ran their whole pipeline onto one destination path
Colliding(i, j) ==
    /\ i # j
    /\ pc[i] = "finished" /\ pc[j] = "finished"
    /\ new_file_path[i] # <<>>
    /\ new_file_path[i] = new_file_path[j]

Sharing(i) == {j \in Tasks : new_file_path[j] = new_file_path[i] /\ pc[j] = "finished"}

\* C10 as claimed: after the run, the file two sources of the same name and
\* date were both copied to is the whole pipeline result of one of them.
C10_DestinationIsOnePipelineResult ==
    RunOver =>
        \A i, j \in Tasks :
            Colliding(i, j) /\ Sharing(i) = {i, j} =>
                \E k \in {i, j} :
                    fs[new_file_path[i]] =
                        PipelineResult(fs[file_path(k)], relative_path[k])

====
